---- MODULE Spec2Model ----
(***************************************************************************)
(* Fractional real-estate ledger: property registry, ownership ledger,     *)
(* marketplace and rental-income distributor of                            *)
(* real_estate_fractional_backend/src/lib.rs.                              *)
(*                                                                         *)
(* Every #[update] entry point runs to completion, so each one is a single *)
(* action.  The HashMaps are partial functions: a key is present exactly   *)
(* when it is in the DOMAIN, so `entry(k).or_insert(0)` and `remove(k)`    *)
(* are visible in the state.  `last` records the most recent call and     *)
(* what it returned to the caller.                                         *)
(***************************************************************************)
EXTENDS Integers, Sequences, FiniteSets, TLC

VARIABLES properties, ownership, next_property_id, rental_income,
          unclaimed_income, marketplace, last

vars == <<properties, ownership, next_property_id, rental_income,
          unclaimed_income, marketplace, last>>

(* ------------------------------ bounds --------------------------------- *)
\* number of register_property calls explored
MaxProps == 1
\* largest total_shares / share amount drawn as an input
MaxShares == 2
\* largest single deposit drawn as an input
MaxDeposit == 2
\* cap on the cumulative RENTAL_INCOME counter of one property
MaxIncome == 2
\* cap on the length of MARKETPLACE
MaxListings == 2
\* largest price_per_share drawn as an input
MaxPrice == 1
\* width of the unsigned machine word the model computes in
WordBits == 16
\* cap on the length of MARKETPLACE under NextWide
MaxWideListings == 1

Users == {"alice", "bob"}
Names == {"Villa"}
Modulus == 2 ^ WordBits

(* ------------------------- unsigned arithmetic ------------------------- *)
Add(a, b) == (a + b) % Modulus
Sub(a, b) == (a - b + Modulus) % Modulus
Mul(a, b) == (a * b) % Modulus

(* ------------------------------ HashMap -------------------------------- *)
EmptyMap == [k \in {} |-> 0]
Get(m, k) == IF k \in DOMAIN m THEN m[k] ELSE 0
Put(m, k, v) == [x \in (DOMAIN m) \cup {k} |-> IF x = k THEN v ELSE m[x]]
Remove(m, k) == [x \in (DOMAIN m) \ {k} |-> m[x]]
\* own.entry(k).or_insert(0): the key is present afterwards
Entry(m, k) == Put(m, k, Get(m, k))

(* ------------------------------ queries -------------------------------- *)
get_ownership(property_id, user) == Get(ownership, <<property_id, user>>)
get_unclaimed_income(property_id, user) == Get(unclaimed_income, <<property_id, user>>)
get_marketplace_listings == marketplace
Registered(property_id) == property_id \in DOMAIN properties

Init ==
    /\ properties = EmptyMap
    /\ ownership = EmptyMap
    /\ next_property_id = 1
    /\ rental_income = EmptyMap
    /\ unclaimed_income = EmptyMap
    /\ marketplace = << >>
    /\ last = [op |-> "init"]

(* --------------------------- register_property ------------------------- *)
NewProperty(id, name, total_shares) ==
    [id |-> id, name |-> name, total_shares |-> total_shares,
     shares_available |-> total_shares]

\* NextPropertyId that hands out the same id again
NextPropertyIdStuck(id) == id

\* lines 42-44: curr = *id; *id += 1
NextPropertyId(id) == Add(id, 1)

register_property(name, total_shares) ==
    /\ properties' = Put(properties, next_property_id,
                         NewProperty(next_property_id, name, total_shares))
    /\ next_property_id' = NextPropertyId(next_property_id)
    /\ last' = [op |-> "register_property",
                ret |-> NewProperty(next_property_id, name, total_shares)]
    /\ UNCHANGED <<ownership, rental_income, unclaimed_income, marketplace>>

(* ------------------------------ issue_shares --------------------------- *)
\* IssueAllowed with the availability check off by one
IssueAllowedOffByOne(props, property_id, amount) ==
    /\ property_id \in DOMAIN props
    /\ props[property_id].shares_available + 1 >= amount

IssueAllowed(props, property_id, amount) ==
    /\ property_id \in DOMAIN props
    /\ props[property_id].shares_available >= amount

Credit(own, property_id, to, amount) ==
    Put(own, <<property_id, to>>, Add(Get(own, <<property_id, to>>), amount))

\* TakeShares adding to the available shares instead of subtracting
TakeSharesAdds(props, property_id, amount) ==
    [props EXCEPT ![property_id].shares_available = Add(@, amount)]

\* line 66: prop.shares_available -= amount
TakeShares(props, property_id, amount) ==
    [props EXCEPT ![property_id].shares_available = Sub(@, amount)]

issue_shares(property_id, to, amount) ==
    /\ IF IssueAllowed(properties, property_id, amount)
       THEN /\ properties' = TakeShares(properties, property_id, amount)
            /\ ownership' = Credit(ownership, property_id, to, amount)
            /\ last' = [op |-> "issue_shares", ok |-> TRUE,
                        msg |-> "Shares issued"]
       ELSE /\ UNCHANGED <<properties, ownership>>
            /\ last' = [op |-> "issue_shares", ok |-> FALSE,
                        msg |-> "Not enough shares or property not found"]
    /\ UNCHANGED <<next_property_id, rental_income, unclaimed_income, marketplace>>

(* -------------------------- deposit_rental_income ---------------------- *)
\* total_shares as read at lines 101-106: 0 when the property is absent
TotalSharesOf(props, property_id) ==
    IF property_id \in DOMAIN props THEN props[property_id].total_shares ELSE 0

\* UserIncome rounding up instead of down
UserIncomeRoundUp(amount, shares, total_shares) ==
    (Mul(amount, shares) + total_shares - 1) \div total_shares

\* UserIncome crediting the whole deposit to each holder
UserIncomeFull(amount, shares, total_shares) == amount

\* let user_income = amount * shares / total_shares;
UserIncome(amount, shares, total_shares) == Mul(amount, shares) \div total_shares

\* the keys the loop at lines 113-114 credits
Holders(own, property_id) ==
    {k \in DOMAIN own : k[1] = property_id /\ own[k] > 0}

\* Distribute storing the new credit over the balance already unclaimed
DistributeOverwrite(ui, own, property_id, amount, total_shares) ==
    [k \in (DOMAIN ui) \cup Holders(own, property_id) |->
        IF k \in Holders(own, property_id)
        THEN UserIncome(amount, own[k], total_shares)
        ELSE ui[k]]

Distribute(ui, own, property_id, amount, total_shares) ==
    [k \in (DOMAIN ui) \cup Holders(own, property_id) |->
        IF k \in Holders(own, property_id)
        THEN Add(Get(ui, k), UserIncome(amount, own[k], total_shares))
        ELSE ui[k]]

\* some +=, or the product amount * shares, of lines 98, 115 and 118 leaves
\* the machine word
DepositOverflows(ri, ui, own, property_id, amount, total_shares) ==
    \/ Get(ri, property_id) + amount >= Modulus
    \/ /\ total_shares # 0
       /\ \E k \in Holders(own, property_id) :
             \/ amount * own[k] >= Modulus
             \/ Get(ui, k) + UserIncome(amount, own[k], total_shares) >= Modulus

\* what an overflowing operation does depends on the build: it wraps
\* (overflow checks off) or panics (overflow checks on), and a panic traps
\* the update call, which discards its state changes
DepositOutcomes(ri, ui, own, property_id, amount, total_shares) ==
    IF DepositOverflows(ri, ui, own, property_id, amount, total_shares)
    THEN {"wrap", "trap"}
    ELSE {"wrap"}

deposit_rental_income(property_id, amount) ==
    /\ \E outcome \in DepositOutcomes(rental_income, unclaimed_income, ownership,
                                       property_id, amount,
                                       TotalSharesOf(properties, property_id)) :
          IF outcome = "trap"
          THEN /\ UNCHANGED <<rental_income, unclaimed_income>>
               /\ last' = [op |-> "deposit_rental_income", ok |-> FALSE,
                           msg |-> "panicked: arithmetic overflow"]
          ELSE /\ rental_income' = Put(rental_income, property_id,
                                       Add(Get(rental_income, property_id), amount))
               /\ IF TotalSharesOf(properties, property_id) = 0
                  THEN /\ UNCHANGED unclaimed_income
                       /\ last' = [op |-> "deposit_rental_income", ok |-> FALSE,
                                   msg |-> "Property not found or has no shares"]
                  ELSE /\ unclaimed_income' =
                             Distribute(unclaimed_income, ownership, property_id,
                                        amount,
                                        TotalSharesOf(properties, property_id))
                       /\ last' = [op |-> "deposit_rental_income", ok |-> TRUE,
                                   msg |-> "Rental income distributed"]
    /\ UNCHANGED <<properties, ownership, next_property_id, marketplace>>

(* ------------------------------ claim_income --------------------------- *)
Claimed(ui, property_id, user) == Get(ui, <<property_id, user>>)

\* AfterClaim that reads without removing the entry
AfterClaimKeep(ui, property_id, user) == ui

AfterClaim(ui, property_id, user) == Remove(ui, <<property_id, user>>)

claim_income(property_id, user) ==
    /\ unclaimed_income' = AfterClaim(unclaimed_income, property_id, user)
    /\ last' = [op |-> "claim_income",
                ret |-> Claimed(unclaimed_income, property_id, user)]
    /\ UNCHANGED <<properties, ownership, next_property_id, rental_income,
                   marketplace>>

(* --------------------------- list_shares_for_sale ---------------------- *)
\* NewListing with amount and price_per_share swapped
NewListingSwapped(property_id, seller, amount, price_per_share) ==
    [property_id |-> property_id, seller |-> seller, amount |-> price_per_share,
     price_per_share |-> amount]

NewListing(property_id, seller, amount, price_per_share) ==
    [property_id |-> property_id, seller |-> seller, amount |-> amount,
     price_per_share |-> price_per_share]

list_shares_for_sale(property_id, seller, amount, price_per_share) ==
    /\ IF Get(ownership, <<property_id, seller>>) < amount
       THEN /\ UNCHANGED marketplace
            /\ last' = [op |-> "list_shares_for_sale", ok |-> FALSE,
                        msg |-> "Not enough shares to list"]
       ELSE /\ marketplace' = Append(marketplace,
                  NewListing(property_id, seller, amount, price_per_share))
            /\ last' = [op |-> "list_shares_for_sale", ok |-> TRUE,
                        msg |-> "Shares listed for sale"]
    /\ UNCHANGED <<properties, ownership, next_property_id, rental_income,
                   unclaimed_income>>

(* -------------------------------- buy_shares --------------------------- *)
\* SettleTrade crediting the buyer from the balance read before the debit
SettleTradeStaleRead(own, property_id, seller, buyer, amount) ==
    IF Get(own, <<property_id, seller>>) < amount
    THEN Entry(own, <<property_id, seller>>)
    ELSE Put(Put(own, <<property_id, seller>>,
                 Sub(Get(own, <<property_id, seller>>), amount)),
             <<property_id, buyer>>,
             Add(Get(own, <<property_id, buyer>>), amount))

\* lines 172-182: entry(seller).or_insert(0); return early when the seller
\* holds less than amount; else debit the seller and credit the buyer
SettleTrade(own, property_id, seller, buyer, amount) ==
    IF Get(own, <<property_id, seller>>) < amount
    THEN Entry(own, <<property_id, seller>>)
    ELSE Credit(Put(own, <<property_id, seller>>,
                    Sub(Get(own, <<property_id, seller>>), amount)),
                property_id, buyer, amount)

\* Matches without the amount comparison
MatchesAnyAmount(l, property_id, seller, amount) ==
    /\ l.property_id = property_id
    /\ l.seller = seller

Matches(l, property_id, seller, amount) ==
    /\ l.property_id = property_id
    /\ l.seller = seller
    /\ l.amount >= amount

\* Position returning the highest matching index
PositionLast(mp, property_id, seller, amount) ==
    IF \E i \in 1..Len(mp) : Matches(mp[i], property_id, seller, amount)
    THEN CHOOSE i \in 1..Len(mp) :
            /\ Matches(mp[i], property_id, seller, amount)
            /\ \A j \in (i + 1)..Len(mp) :
                  ~Matches(mp[j], property_id, seller, amount)
    ELSE 0

\* mp.iter().position(..): the lowest matching index, 0 for None
Position(mp, property_id, seller, amount) ==
    IF \E i \in 1..Len(mp) : Matches(mp[i], property_id, seller, amount)
    THEN CHOOSE i \in 1..Len(mp) :
            /\ Matches(mp[i], property_id, seller, amount)
            /\ \A j \in 1..(i - 1) : ~Matches(mp[j], property_id, seller, amount)
    ELSE 0

RemoveAt(mp, pos) ==
    [i \in 1..(Len(mp) - 1) |-> IF i < pos THEN mp[i] ELSE mp[i + 1]]

\* FillListing that always decrements and never removes
FillListingNeverRemove(mp, pos, amount) ==
    [mp EXCEPT ![pos].amount = Sub(@, amount)]

\* lines 184-188: reduce or remove listing
FillListing(mp, pos, amount) ==
    IF mp[pos].amount = amount
    THEN RemoveAt(mp, pos)
    ELSE [mp EXCEPT ![pos].amount = Sub(@, amount)]

buy_shares(property_id, seller, buyer, amount) ==
    /\ IF Position(marketplace, property_id, seller, amount) # 0
       THEN /\ ownership' = SettleTrade(ownership, property_id, seller, buyer, amount)
            /\ marketplace' = FillListing(marketplace,
                  Position(marketplace, property_id, seller, amount), amount)
            /\ last' = [op |-> "buy_shares", ok |-> TRUE,
                        msg |-> "Shares bought successfully"]
       ELSE /\ UNCHANGED <<ownership, marketplace>>
            /\ last' = [op |-> "buy_shares", ok |-> FALSE,
                        msg |-> "Listing not found or insufficient shares"]
    /\ UNCHANGED <<properties, next_property_id, rental_income, unclaimed_income>>

(* ------------------------------ transfer_shares ------------------------ *)
\* line 205: the balance check on entry(from).or_insert(0)
\* TransferAllowed letting one share more than the balance through
TransferAllowedOffByOne(own, property_id, from, amount) ==
    ~(Get(own, <<property_id, from>>) + 1 < amount)

TransferAllowed(own, property_id, from, amount) ==
    ~(Get(own, <<property_id, from>>) < amount)

\* TransferOwnership without the balance check
TransferOwnershipUnchecked(own, property_id, from, to, amount) ==
    Credit(Put(own, <<property_id, from>>,
               Sub(Get(own, <<property_id, from>>), amount)),
           property_id, to, amount)

\* lines 203-209
TransferOwnership(own, property_id, from, to, amount) ==
    IF TransferAllowed(own, property_id, from, amount)
    THEN Credit(Put(own, <<property_id, from>>,
                    Sub(Get(own, <<property_id, from>>), amount)),
                property_id, to, amount)
    ELSE Entry(own, <<property_id, from>>)

\* transfer_shares that also hands the sender's unclaimed income to the
\* receiver
transfer_shares_with_income(property_id, from, to, amount) ==
    /\ ownership' = TransferOwnership(ownership, property_id, from, to, amount)
    /\ IF TransferAllowed(ownership, property_id, from, amount)
       THEN /\ last' = [op |-> "transfer_shares", ok |-> TRUE,
                        msg |-> "Shares transferred"]
            /\ unclaimed_income' =
                  Put(Remove(unclaimed_income, <<property_id, from>>),
                      <<property_id, to>>,
                      Add(Get(Remove(unclaimed_income, <<property_id, from>>),
                              <<property_id, to>>),
                          Get(unclaimed_income, <<property_id, from>>)))
       ELSE /\ last' = [op |-> "transfer_shares", ok |-> FALSE,
                        msg |-> "Not enough shares to transfer"]
            /\ UNCHANGED unclaimed_income
    /\ UNCHANGED <<properties, next_property_id, rental_income, marketplace>>

transfer_shares(property_id, from, to, amount) ==
    /\ ownership' = TransferOwnership(ownership, property_id, from, to, amount)
    /\ IF TransferAllowed(ownership, property_id, from, amount)
       THEN last' = [op |-> "transfer_shares", ok |-> TRUE,
                     msg |-> "Shares transferred"]
       ELSE last' = [op |-> "transfer_shares", ok |-> FALSE,
                     msg |-> "Not enough shares to transfer"]
    /\ UNCHANGED <<properties, next_property_id, rental_income, unclaimed_income,
                   marketplace>>

(* ------------------------------ next-state ----------------------------- *)
\* property ids a caller names; an id is unregistered until register_property
\* has handed it out
PropertyIds == 1..MaxProps
Amounts == 0..MaxShares

\* the calls explored: at most MaxProps registrations, RENTAL_INCOME of a
\* property up to MaxIncome, at most MaxListings listings
Next ==
    \/ \E name \in Names, total_shares \in Amounts :
          /\ next_property_id <= MaxProps
          /\ register_property(name, total_shares)
    \/ \E property_id \in PropertyIds, to \in Users, amount \in Amounts :
          issue_shares(property_id, to, amount)
    \/ \E property_id \in PropertyIds, amount \in 0..MaxDeposit :
          /\ Get(rental_income, property_id) + amount <= MaxIncome
          /\ deposit_rental_income(property_id, amount)
    \/ \E property_id \in PropertyIds, user \in Users :
          claim_income(property_id, user)
    \/ \E property_id \in PropertyIds, seller \in Users, amount \in Amounts,
          price_per_share \in 1..MaxPrice :
          /\ Len(marketplace) < MaxListings \/ get_ownership(property_id, seller) < amount
          /\ list_shares_for_sale(property_id, seller, amount, price_per_share)
    \/ \E property_id \in PropertyIds, seller \in Users, buyer \in Users,
          amount \in Amounts :
          buy_shares(property_id, seller, buyer, amount)
    \/ \E property_id \in PropertyIds, from \in Users, to \in Users,
          amount \in Amounts :
          transfer_shares(property_id, from, to, amount)

Spec == Init /\ [][Next]_vars

(* ------------------- a second registration, wide amounts --------------- *)
\* the same entry points called by one user with one more registration than
\* in Spec, all-or-nothing share amounts, and a first deposit per property
\* of 1 or of the largest value of the machine word
WideIds == 1..(MaxProps + 1)
WideUsers == {"alice"}
WideAmounts == {0, MaxShares}
WideDeposits == {1, Modulus - 1}

NextWide ==
    \/ \E name \in Names, total_shares \in WideAmounts :
          /\ next_property_id <= MaxProps + 1
          /\ register_property(name, total_shares)
    \/ \E property_id \in WideIds, to \in WideUsers, amount \in WideAmounts :
          issue_shares(property_id, to, amount)
    \/ \E property_id \in WideIds, amount \in WideDeposits :
          /\ Get(rental_income, property_id) = 0
          /\ deposit_rental_income(property_id, amount)
    \/ \E property_id \in WideIds, user \in WideUsers :
          claim_income(property_id, user)
    \/ \E property_id \in WideIds, seller \in WideUsers, amount \in WideAmounts,
          price_per_share \in 1..MaxPrice :
          /\ Len(marketplace) < MaxWideListings \/ get_ownership(property_id, seller) < amount
          /\ list_shares_for_sale(property_id, seller, amount, price_per_share)
    \/ \E property_id \in WideIds, seller \in WideUsers, buyer \in WideUsers,
          amount \in WideAmounts :
          buy_shares(property_id, seller, buyer, amount)
    \/ \E property_id \in WideIds, from \in WideUsers, to \in WideUsers,
          amount \in WideAmounts :
          transfer_shares(property_id, from, to, amount)

SpecWide == Init /\ [][NextWide]_vars

(* ======================== properties of the ledger ===================== *)
RECURSIVE SumOver(_, _)
SumOver(m, S) ==
    IF S = {} THEN 0
    ELSE LET k == CHOOSE x \in S : TRUE IN m[k] + SumOver(m, S \ {k})

\* sum of every owner's balance for one property
OwnedTotal(own, property_id) ==
    SumOver(own, {k \in DOMAIN own : k[1] = property_id})

Keys == PropertyIds \X Users
SameBalances(own1, own2) == \A k \in Keys : Get(own1, k) = Get(own2, k)
SameBalancesExcept(own1, own2, K) ==
    \A k \in Keys \ K : Get(own1, k) = Get(own2, k)

\* C1: conservation -- for every registered property the shares still
\* available plus the balances of all its owners equal its total shares,
\* in every reachable state.
C1_Conservation ==
    \A p \in DOMAIN properties :
        properties[p].shares_available + OwnedTotal(ownership, p)
            = properties[p].total_shares

\* a trade has just settled on a property whose shares are all issued and
\* split between both users
C1_Witness ==
    /\ last.op = "buy_shares" /\ last.ok
    /\ \E p \in DOMAIN properties :
          /\ properties[p].shares_available < properties[p].total_shares
          /\ \A u \in Users : get_ownership(p, u) > 0

\* C2: all-or-nothing -- a call of issue_shares, transfer_shares,
\* list_shares_for_sale, buy_shares or deposit_rental_income that returns an
\* error leaves the property table, every ownership balance, the listings,
\* every rental income total and every unclaimed balance as they were.
C2_AllOrNothing ==
    [][(/\ last'.op \in {"issue_shares", "transfer_shares", "list_shares_for_sale",
                         "buy_shares", "deposit_rental_income"}
        /\ ~last'.ok)
       => /\ properties' = properties
          /\ SameBalances(ownership', ownership)
          /\ marketplace' = marketplace
          /\ \A p \in PropertyIds : Get(rental_income', p) = Get(rental_income, p)
          /\ SameBalances(unclaimed_income', unclaimed_income)]_vars

\* C3: buy_shares settles what it reports -- a successful buy between two
\* different users lowers the seller's balance by amount and raises the
\* buyer's by amount.
C3_BuySettles ==
    [][last'.op = "buy_shares" =>
       \A p \in PropertyIds, seller \in Users, buyer \in Users, amount \in Amounts :
         (buy_shares(p, seller, buyer, amount) /\ last'.ok /\ seller # buyer)
         => /\ get_ownership(p, seller) >= amount
            /\ Get(ownership', <<p, seller>>) = get_ownership(p, seller) - amount
            /\ Get(ownership', <<p, buyer>>) = get_ownership(p, buyer) + amount]_vars

\* C4: transfer_shares succeeds exactly when the sender holds at least
\* amount; on success it moves amount from sender to receiver (net zero when
\* they are the same user) and touches nothing else; otherwise it reports
\* "Not enough shares to transfer" and no balance changes.  No balance is
\* ever negative or wrapped: each lies between 0 and the property's total.
BalancesInRange ==
    \A k \in DOMAIN ownership :
        ownership[k] >= 0 /\ ownership[k] <= TotalSharesOf(properties, k[1])

C4_Transfer ==
    /\ []BalancesInRange
    /\ [][last'.op = "transfer_shares" =>
          \A p \in PropertyIds, from \in Users, to \in Users, amount \in Amounts :
            transfer_shares(p, from, to, amount)
            => /\ last'.ok <=> (get_ownership(p, from) >= amount)
               /\ last'.ok /\ from # to
                    => /\ Get(ownership', <<p, from>>) = get_ownership(p, from) - amount
                       /\ Get(ownership', <<p, to>>) = get_ownership(p, to) + amount
                       /\ SameBalancesExcept(ownership', ownership,
                                             {<<p, from>>, <<p, to>>})
               /\ last'.ok /\ from = to => SameBalances(ownership', ownership)
               /\ ~last'.ok
                    => /\ last'.msg = "Not enough shares to transfer"
                       /\ SameBalances(ownership', ownership)
               /\ properties' = properties]_vars

\* a transfer has just succeeded and left both users with shares
C4_Witness ==
    /\ last.op = "transfer_shares" /\ last.ok
    /\ \E p \in PropertyIds : \A u \in Users : get_ownership(p, u) > 0

\* C5: issuance -- issue_shares never succeeds on an unregistered property
\* or for more than the shares available; on success the available shares
\* drop by amount and the recipient's balance rises by amount; amount 0 on a
\* registered property succeeds and changes no balance.
C5_Issuance ==
    [][last'.op = "issue_shares" =>
       \A p \in PropertyIds, to \in Users, amount \in Amounts :
         issue_shares(p, to, amount)
         => /\ last'.ok
                 => /\ Registered(p)
                    /\ amount <= properties[p].shares_available
                    /\ properties'[p].shares_available
                          = properties[p].shares_available - amount
                    /\ Get(ownership', <<p, to>>) = get_ownership(p, to) + amount
                    /\ SameBalancesExcept(ownership', ownership, {<<p, to>>})
            /\ (Registered(p) /\ amount = 0)
                 => /\ last'.ok
                    /\ SameBalances(ownership', ownership)
                    /\ properties' = properties]_vars

\* shares have just been issued and some are still available
C5_Witness ==
    /\ last.op = "issue_shares" /\ last.ok
    /\ \E p \in DOMAIN properties :
          /\ properties[p].shares_available > 0
          /\ \E u \in Users : get_ownership(p, u) > 0

\* C6: distribution bound -- a successful deposit_rental_income(p, amount)
\* raises the unclaimed balances of p's owners by at most amount in total.
CreditedBy(ui1, ui0, property_id) ==
    SumOver([u \in Users |-> Get(ui1, <<property_id, u>>) - Get(ui0, <<property_id, u>>)],
            Users)

C6_DistributionBound ==
    [][last'.op = "deposit_rental_income" =>
       \A p \in PropertyIds, amount \in 0..MaxDeposit :
         (deposit_rental_income(p, amount) /\ last'.ok)
         => CreditedBy(unclaimed_income', unclaimed_income, p) <= amount]_vars

\* a deposit has just been distributed between two holders and rounding
\* left part of it uncredited
C6_Witness ==
    /\ last.op = "deposit_rental_income" /\ last.ok
    /\ \E p \in DOMAIN properties :
          /\ \A u \in Users : get_ownership(p, u) > 0
          /\ \A u \in Users : get_unclaimed_income(p, u) = 0
          /\ Get(rental_income, p) > 0

\* C7: pro-rata credit -- a successful deposit_rental_income(p, amount) adds
\* floor(amount * balance / total_shares) to the unclaimed income of every
\* user with a positive balance for p, on top of what was unclaimed before,
\* and changes no other unclaimed balance (100 shares split 60/40 and a
\* deposit of 100 credit 60 and 40).
C7_ProRata ==
    [][last'.op = "deposit_rental_income" =>
       \A p \in PropertyIds, amount \in 0..MaxDeposit :
         (deposit_rental_income(p, amount) /\ last'.ok)
         => /\ \A u \in Users :
                  Get(unclaimed_income', <<p, u>>) =
                     IF get_ownership(p, u) > 0
                     THEN get_unclaimed_income(p, u)
                          + (amount * get_ownership(p, u))
                               \div properties[p].total_shares
                     ELSE get_unclaimed_income(p, u)
            /\ \A k \in Keys : k[1] # p =>
                  Get(unclaimed_income', k) = Get(unclaimed_income, k)
            /\ UserIncome(100, 60, 100) = 60
            /\ UserIncome(100, 40, 100) = 40]_vars

\* a deposit has just been distributed and both holders have a positive
\* unclaimed balance
C7_Witness ==
    /\ last.op = "deposit_rental_income" /\ last.ok
    /\ \E p \in DOMAIN properties :
          \A u \in Users : get_ownership(p, u) > 0 /\ get_unclaimed_income(p, u) > 0

\* C8: claim reads and zeroes -- claim_income(p, user) returns the unclaimed
\* income of (p, user), 0 if there is none; afterwards that balance reads 0,
\* so an immediate second claim returns 0; no other unclaimed balance
\* changes.
C8_Claim ==
    [][last'.op = "claim_income" =>
       \A p \in PropertyIds, user \in Users :
         claim_income(p, user)
         => /\ last'.ret = get_unclaimed_income(p, user)
            /\ Get(unclaimed_income', <<p, user>>) = 0
            /\ Claimed(unclaimed_income', p, user) = 0
            /\ SameBalancesExcept(unclaimed_income', unclaimed_income,
                                  {<<p, user>>})]_vars

\* a positive amount has just been claimed while the other user still has
\* income to claim
C8_Witness ==
    /\ last.op = "claim_income" /\ last.ret > 0
    /\ \E k \in DOMAIN unclaimed_income : unclaimed_income[k] > 0

\* C9: listing fill -- a successful buy_shares(p, seller, buyer, n) against
\* the listing it matched, of amount a >= n, leaves that listing in place
\* with amount a - n and its price when n < a, and removes it from the
\* sequence when n = a; when the seller still holds n shares they move to
\* the buyer.
FirstMatch(mp, property_id, seller, amount) ==
    CHOOSE i \in 1..Len(mp) :
        /\ mp[i].property_id = property_id /\ mp[i].seller = seller
        /\ mp[i].amount >= amount
        /\ \A j \in 1..(i - 1) :
              ~(/\ mp[j].property_id = property_id /\ mp[j].seller = seller
                /\ mp[j].amount >= amount)

C9_ListingFill ==
    [][last'.op = "buy_shares" =>
       \A p \in PropertyIds, seller \in Users, buyer \in Users, n \in Amounts :
         (buy_shares(p, seller, buyer, n) /\ last'.ok)
         => LET pos == FirstMatch(marketplace, p, seller, n)
                a == marketplace[pos].amount
            IN /\ a >= n
               /\ n < a =>
                    /\ Len(marketplace') = Len(marketplace)
                    /\ marketplace'[pos] =
                          [property_id |-> p, seller |-> seller, amount |-> a - n,
                           price_per_share |-> marketplace[pos].price_per_share]
                    /\ \A i \in 1..Len(marketplace) :
                          i # pos => marketplace'[i] = marketplace[i]
               /\ n = a =>
                    /\ Len(marketplace') = Len(marketplace) - 1
                    /\ \A i \in 1..(pos - 1) : marketplace'[i] = marketplace[i]
                    /\ \A i \in pos..(Len(marketplace) - 1) :
                          marketplace'[i] = marketplace[i + 1]
               /\ (get_ownership(p, seller) >= n /\ seller # buyer) =>
                    /\ Get(ownership', <<p, seller>>) = get_ownership(p, seller) - n
                    /\ Get(ownership', <<p, buyer>>) = get_ownership(p, buyer) + n]_vars

\* a listing of 2 has just been bought for 1: 1 remains listed, seller 2 -> 1,
\* buyer 0 -> 1
C9_Witness ==
    /\ last.op = "buy_shares" /\ last.ok
    /\ Len(marketplace) = 1 /\ marketplace[1].amount = 1
    /\ \A u \in Users : get_ownership(marketplace[1].property_id, u) = 1

\* C10: no match, no change -- when no listing has the requested property
\* and seller with an amount of at least the requested one, buy_shares
\* returns "Listing not found or insufficient shares" and every balance and
\* every listing is as before.
C10_NoMatch ==
    [][last'.op = "buy_shares" =>
       \A p \in PropertyIds, seller \in Users, buyer \in Users, n \in Amounts :
         (/\ buy_shares(p, seller, buyer, n)
          /\ ~\E i \in 1..Len(marketplace) :
                /\ marketplace[i].property_id = p
                /\ marketplace[i].seller = seller
                /\ marketplace[i].amount >= n)
         => /\ ~last'.ok
            /\ last'.msg = "Listing not found or insufficient shares"
            /\ SameBalances(ownership', ownership)
            /\ marketplace' = marketplace]_vars

\* a buy has just been refused while a listing with shares on offer exists
C10_Witness ==
    /\ last.op = "buy_shares" /\ ~last.ok
    /\ \E i \in 1..Len(marketplace) : marketplace[i].amount > 0

\* C11: listing lifecycle -- in every reachable state every listing in the
\* marketplace has amount > 0; no listing record with amount 0 is ever kept.
C11_ListingsPositive ==
    \A i \in 1..Len(marketplace) : marketplace[i].amount > 0

\* C12: registration -- the k-th register_property call returns a property
\* with id k: ids start at 1, grow by one and are never reused; the returned
\* property is stored with shares_available = total_shares, and every
\* property registered before and every balance, total, unclaimed income
\* and listing is unchanged.
IdsInSequence ==
    /\ DOMAIN properties = 1..(next_property_id - 1)
    /\ \A p \in DOMAIN properties : properties[p].id = p

C12_Register ==
    /\ []IdsInSequence
    /\ [][last'.op = "register_property" =>
          \A name \in Names, total_shares \in WideAmounts :
            register_property(name, total_shares)
            => /\ last'.ret.id = Cardinality(DOMAIN properties) + 1
               /\ last'.ret.id \notin DOMAIN properties
               /\ last'.ret.name = name
               /\ last'.ret.total_shares = total_shares
               /\ last'.ret.shares_available = total_shares
               /\ properties'[last'.ret.id] = last'.ret
               /\ DOMAIN properties' = DOMAIN properties \cup {last'.ret.id}
               /\ \A p \in DOMAIN properties : properties'[p] = properties[p]
               /\ ownership' = ownership
               /\ rental_income' = rental_income
               /\ unclaimed_income' = unclaimed_income
               /\ marketplace' = marketplace]_vars

\* the second property has just been registered with id 2 after shares of
\* the first were issued
C12_Witness ==
    /\ last.op = "register_property" /\ last.ret.id = 2
    /\ Registered(1) /\ properties[1].shares_available < properties[1].total_shares
    /\ Registered(2)

\* C13: property stability -- a registered property stays registered with
\* the same id, name and total_shares; its shares_available never increases,
\* never exceeds total_shares, and changes only in a successful issue_shares
\* on that property.
AvailableWithinTotal ==
    \A p \in DOMAIN properties :
        /\ properties[p].shares_available >= 0
        /\ properties[p].shares_available <= properties[p].total_shares

C13_PropertyStable ==
    /\ []AvailableWithinTotal
    /\ [][\A p \in DOMAIN properties :
            /\ p \in DOMAIN properties'
            /\ properties'[p].id = properties[p].id
            /\ properties'[p].name = properties[p].name
            /\ properties'[p].total_shares = properties[p].total_shares
            /\ properties'[p].shares_available <= properties[p].shares_available
            /\ properties'[p].shares_available # properties[p].shares_available
                 => /\ last'.op = "issue_shares" /\ last'.ok
                    /\ \E to \in WideUsers, amount \in WideAmounts :
                          issue_shares(p, to, amount)]_vars

\* shares of the second property have just been issued while the first
\* still has all of its shares available
C13_Witness ==
    /\ last.op = "issue_shares" /\ last.ok
    /\ Registered(1) /\ Registered(2)
    /\ properties[1].total_shares > 0
    /\ properties[1].shares_available = properties[1].total_shares
    /\ properties[2].shares_available < properties[2].total_shares

\* C14: listing -- list_shares_for_sale(p, seller, amount, price) succeeds
\* exactly when the seller holds at least amount at the time of the call; on
\* success it appends the listing (p, seller, amount, price) at the end and
\* leaves the earlier listings and their order as they were; it changes no
\* balance, so nothing is reserved and one seller's listed amounts may sum
\* to more than the seller holds.
C14_List ==
    [][last'.op = "list_shares_for_sale" =>
       \A p \in PropertyIds, seller \in Users, amount \in Amounts,
          price \in 1..MaxPrice :
         list_shares_for_sale(p, seller, amount, price)
         => /\ last'.ok <=> (get_ownership(p, seller) >= amount)
            /\ last'.ok
                 => /\ Len(marketplace') = Len(marketplace) + 1
                    /\ marketplace'[Len(marketplace')] =
                          [property_id |-> p, seller |-> seller,
                           amount |-> amount, price_per_share |-> price]
                    /\ \A i \in 1..Len(marketplace) :
                          marketplace'[i] = marketplace[i]
            /\ ~last'.ok
                 => /\ last'.msg = "Not enough shares to list"
                    /\ marketplace' = marketplace
            /\ ownership' = ownership
            /\ properties' = properties]_vars

\* a second listing has just been accepted and the two listings of the same
\* seller offer more shares than the seller holds
C14_Witness ==
    /\ last.op = "list_shares_for_sale" /\ last.ok
    /\ Len(marketplace) = 2
    /\ marketplace[1].seller = marketplace[2].seller
    /\ marketplace[1].property_id = marketplace[2].property_id
    /\ marketplace[1].amount + marketplace[2].amount
          > get_ownership(marketplace[2].property_id, marketplace[2].seller)
    /\ marketplace[2].amount > 0

\* C15: deposit totals -- deposit_rental_income(p, amount) succeeds exactly
\* when p is registered with total_shares > 0 and otherwise reports that the
\* property was not found; the rental income total of p is the sum of the
\* amounts of the successful deposits for p: it starts at 0, a successful
\* deposit adds its amount, and no other call changes it.
C15_DepositTotal ==
    [][/\ last'.op = "deposit_rental_income" =>
          \A p \in PropertyIds, amount \in 0..MaxDeposit :
            deposit_rental_income(p, amount)
            => /\ last'.ok <=> (Registered(p) /\ properties[p].total_shares > 0)
               /\ ~last'.ok => last'.msg = "Property not found or has no shares"
               /\ Get(rental_income', p) =
                     Get(rental_income, p) + (IF last'.ok THEN amount ELSE 0)
       /\ last'.op # "deposit_rental_income" =>
          \A p \in PropertyIds : Get(rental_income', p) = Get(rental_income, p)]_vars

\* C16: first-match selection -- a successful buy_shares(p, seller, buyer, n)
\* acts on the listing at the lowest position whose property and seller are
\* the requested ones and whose amount is at least n; earlier listings of
\* the same seller with a smaller amount are skipped, the price plays no
\* part, and every other listing keeps its fields and its relative order.
Eligible(l, property_id, seller, n) ==
    l.property_id = property_id /\ l.seller = seller /\ l.amount >= n

C17_NoOverflow ==
    [][last'.op = "deposit_rental_income" =>
       \A p \in WideIds, amount \in WideDeposits :
         deposit_rental_income(p, amount)
         => /\ last'.msg # "panicked: arithmetic overflow"
            /\ Get(rental_income', p) = Get(rental_income, p) + amount
            /\ last'.ok =>
                 \A u \in WideUsers :
                    get_ownership(p, u) > 0
                    => Get(unclaimed_income', <<p, u>>) =
                          get_unclaimed_income(p, u)
                          + (amount * get_ownership(p, u))
                               \div properties[p].total_shares]_vars

\* C18: income is never over-paid -- for every property the unclaimed income
\* of all owners plus everything claim_income has paid out so far is at most
\* the rental income total.  Both sides start at 0, so it is stated per
\* call: what a call adds to the unclaimed balances of a property plus what
\* it pays out is at most what it adds to the property's rental income
\* total; and the unclaimed balances alone never exceed the total.
UnclaimedTotal(ui, property_id) ==
    SumOver([u \in Users |-> Get(ui, <<property_id, u>>)], Users)

PaidOut(property_id) ==
    IF /\ last'.op = "claim_income"
       /\ \E u \in Users : claim_income(property_id, u)
    THEN last'.ret
    ELSE 0

UnclaimedWithinTotal ==
    \A p \in PropertyIds :
        UnclaimedTotal(unclaimed_income, p) <= Get(rental_income, p)

C18_NeverOverpaid ==
    /\ []UnclaimedWithinTotal
    /\ [][\A p \in PropertyIds :
            UnclaimedTotal(unclaimed_income', p) + PaidOut(p)
               - UnclaimedTotal(unclaimed_income, p)
            <= Get(rental_income', p) - Get(rental_income, p)]_vars

\* a deposit has just been distributed, part of the income deposited so far
\* is still unclaimed and part of it is not
C18_Witness ==
    /\ last.op = "deposit_rental_income" /\ last.ok
    /\ \E p \in PropertyIds :
          /\ UnclaimedTotal(unclaimed_income, p) > 0
          /\ UnclaimedTotal(unclaimed_income, p) < Get(rental_income, p)
          /\ \E u \in Users : get_ownership(p, u) > 0 /\ get_unclaimed_income(p, u) = 0

\* C19: balances exist only for registered properties -- a positive
\* ownership balance implies that its property is registered and that the
\* balance is at most the property's total_shares, and a positive unclaimed
\* income implies that its property is registered; calls of transfer_shares,
\* list_shares_for_sale and buy_shares on an unregistered id leave at most
\* zero entries behind.
C19_OnlyRegistered ==
    /\ \A k \in DOMAIN ownership :
          ownership[k] > 0 =>
             /\ Registered(k[1])
             /\ ownership[k] <= properties[k[1]].total_shares
    /\ \A k \in DOMAIN unclaimed_income :
          unclaimed_income[k] > 0 => Registered(k[1])

\* a listing on an unregistered id has just been bought and the trade left
\* ownership entries for that id
C19_Witness ==
    /\ last.op = "buy_shares" /\ last.ok
    /\ \E k \in DOMAIN ownership : ~Registered(k[1])

\* C20: credited income stays with the holder at deposit time --
\* issue_shares, transfer_shares, list_shares_for_sale and buy_shares leave
\* every unclaimed income and every rental income total unchanged, so what
\* claim_income would return to any user is the same before and after such a
\* call: an owner who has given all shares away still claims what was
\* credited and the new holder gets nothing from earlier deposits.
ShareCalls ==
    {"issue_shares", "transfer_shares", "list_shares_for_sale", "buy_shares"}

C20_IncomeStays ==
    [][last'.op \in ShareCalls =>
         /\ unclaimed_income' = unclaimed_income
         /\ rental_income' = rental_income
         /\ \A p \in PropertyIds, u \in Users :
               Claimed(unclaimed_income', p, u) = Claimed(unclaimed_income, p, u)]_vars

\* a transfer has just moved all of an owner's shares away after a deposit:
\* the former owner holds nothing and still has income to claim, the new
\* holder has none
C20_Witness ==
    /\ last.op = "transfer_shares" /\ last.ok
    /\ \E p \in PropertyIds, from \in Users, to \in Users :
          /\ from # to
          /\ get_ownership(p, from) = 0
          /\ get_unclaimed_income(p, from) > 0
          /\ get_ownership(p, to) > 0
          /\ get_unclaimed_income(p, to) = 0
====
